---- MODULE Spec2Model ----
(***************************************************************************)
(* Quiz application (Next.js / React): the question processing and         *)
(* scoring functions of src/utils/api.ts, the proxy route of               *)
(* src/app/api/quiz/route.ts and the state machine of the top-level page   *)
(* component QuizAppContent (src/app/page.tsx) with the parts of its child *)
(* components (StartPage, Timer, QuizQuestion, QuestionNavigation) that    *)
(* call back into it.                                                      *)
(*                                                                         *)
(* Texts are sequences of characters (one-character strings), so that      *)
(* entity decoding is computed character by character.  A JavaScript       *)
(* `undefined` text is UNDEF; a `null` object is NULL (the empty tuple)    *)
(* and a present object o is the one-element tuple <<o>>.                  *)
(***************************************************************************)
EXTENDS Integers, Sequences, FiniteSets, TLC

\* ---------------------------------------------------------------- bounds
\* Seconds of the countdown in the model (the program has 30 * 60).
MaxTime == 3
\* Questions asked for per quiz in the model (the program asks for 15).
MaxQuestions == 2
\* Longest raw question list handed to processQuizQuestions on its own.
MaxRaw == 2
\* Longest question list of a final session handed to createQuizResults on its own.
MaxScored == 3
\* The longest text validateEmail is given, the examples apart.
MaxEmailLen == 5
\* The largest number of seconds formatTime is given.
MaxSeconds == 1800

\* ------------------------------------------------------------- constants
TOTAL_QUESTIONS == MaxQuestions
TOTAL_TIME == MaxTime

NULL == <<>>
UNDEF == <<"undefined">>
Some(o) == <<o>>

\* ------------------------------------------------------------------ texts
T_A == <<"A">>
T_B == <<"B">>
T_C == <<"C">>
T_Empty == <<>>
T_Amp == <<"&">>
T_AmpEntity == <<"&", "a", "m", "p", ";">>
T_Apos039 == <<"&", "#", "0", "3", "9", ";">>
T_AposEntity == <<"&", "a", "p", "o", "s", ";">>
T_Apostrophe == <<"'">>
T_Foo == <<"&", "f", "o", "o", ";">>
T_AmpLt == <<"&", "a", "m", "p", ";", "l", "t", ";">>
T_AmpAmp == <<"&", "a", "m", "p", ";", "a", "m", "p", ";">>
T_LtEntity == <<"&", "l", "t", ";">>
T_Lt == <<"<">>
T_TomRaw == <<"T", "&", "a", "m", "p", ";", "J", "&", "q", "u", "o", "t", ";", "S", "&", "q", "u", "o", "t", ";">>
T_TomDecoded == <<"T", "&", "J", "\"", "S", "\"">>
\* 'Not answered', the text createQuizResults reports for a missing answer
NOT_ANSWERED == <<"N", "o", "t", " ", "a", "n", "s", "w", "e", "r", "e", "d">>

\* ----------------------------------------------------- decodeHtmlEntities
\* The replacements of decodeHtmlEntities, in the order the code chains them.
\* The characters (c), (R), TM, the em dash and the en dash are written as
\* the one-character tokens "copy", "reg", "trade", "mdash", "ndash".
Entities ==
    << [pat |-> <<"&", "a", "m", "p", ";">>,                rep |-> <<"&">>],
       [pat |-> <<"&", "l", "t", ";">>,                     rep |-> <<"<">>],
       [pat |-> <<"&", "g", "t", ";">>,                     rep |-> <<">">>],
       [pat |-> <<"&", "q", "u", "o", "t", ";">>,           rep |-> <<"\"">>],
       [pat |-> <<"&", "#", "0", "3", "9", ";">>,           rep |-> <<"'">>],
       [pat |-> <<"&", "a", "p", "o", "s", ";">>,           rep |-> <<"'">>],
       [pat |-> <<"&", "n", "b", "s", "p", ";">>,           rep |-> <<" ">>],
       [pat |-> <<"&", "c", "o", "p", "y", ";">>,           rep |-> <<"copy">>],
       [pat |-> <<"&", "r", "e", "g", ";">>,                rep |-> <<"reg">>],
       [pat |-> <<"&", "t", "r", "a", "d", "e", ";">>,      rep |-> <<"trade">>],
       [pat |-> <<"&", "h", "e", "l", "l", "i", "p", ";">>, rep |-> <<".", ".", ".">>],
       [pat |-> <<"&", "m", "d", "a", "s", "h", ";">>,      rep |-> <<"mdash">>],
       [pat |-> <<"&", "n", "d", "a", "s", "h", ";">>,      rep |-> <<"ndash">>],
       [pat |-> <<"&", "l", "s", "q", "u", "o", ";">>,      rep |-> <<"'">>],
       [pat |-> <<"&", "r", "s", "q", "u", "o", ";">>,      rep |-> <<"'">>],
       [pat |-> <<"&", "l", "d", "q", "u", "o", ";">>,      rep |-> <<"\"">>],
       [pat |-> <<"&", "r", "d", "q", "u", "o", ";">>,      rep |-> <<"\"">>] >>

\* String.prototype.replace with a global literal pattern: every
\* non-overlapping occurrence, found left to right, is replaced.
RECURSIVE ReplaceAll(_, _, _)
ReplaceAll(text, pat, rep) ==
    IF Len(text) < Len(pat) THEN text
    ELSE IF SubSeq(text, 1, Len(pat)) = pat
         THEN rep \o ReplaceAll(SubSeq(text, Len(pat) + 1, Len(text)), pat, rep)
         ELSE <<Head(text)>> \o ReplaceAll(Tail(text), pat, rep)

\* text.replace(e1).replace(e2)...: the first k replacements applied in turn.
RECURSIVE DecodeUpTo(_, _)
DecodeUpTo(text, k) ==
    IF k = 0 THEN text
    ELSE ReplaceAll(DecodeUpTo(text, k - 1), Entities[k].pat, Entities[k].rep)

decodeHtmlEntities(text) == DecodeUpTo(text, Len(Entities))

\* ----------------------------------------------------------- shuffleArray
\* The outcomes of Math.floor(Math.random() * n) instead: j anywhere in the array.
RandomChoicesWide(n) == [1..(n - 1) -> 0..(n - 1)]

\* The outcomes of Math.floor(Math.random() * (i + 1)) for i = n-1 down to 1:
\* one index j in 0..i for each i.
RandomChoices(n) == {rnd \in [1..(n - 1) -> 0..(n - 1)] : \A i \in 1..(n - 1) : rnd[i] <= i}

\* Swap with a slip: shuffled[i] = shuffled[j] alone, the old shuffled[i] is lost.
SwapOverwrites(shuffled, i, j) ==
    [shuffled EXCEPT ![i + 1] = shuffled[j + 1]]

\* [shuffled[i], shuffled[j]] = [shuffled[j], shuffled[i]] (0-based i, j)
Swap(shuffled, i, j) ==
    [shuffled EXCEPT ![i + 1] = shuffled[j + 1], ![j + 1] = shuffled[i + 1]]

RECURSIVE ShuffleLoop(_, _, _)
ShuffleLoop(shuffled, i, rnd) ==
    IF i > 0 THEN ShuffleLoop(Swap(shuffled, i, rnd[i]), i - 1, rnd) ELSE shuffled

shuffleArray(array, rnd) == ShuffleLoop(array, Len(array) - 1, rnd)

\* ---------------------------------------------------- processQuizQuestions
\* One element of questions.map(...): index is the 0-based map index.
ProcessQuestion(question, index, rnd) ==
    LET decodedQuestion == decodeHtmlEntities(question.question)
        decodedCorrectAnswer == decodeHtmlEntities(question.correct_answer)
        decodedIncorrectAnswers ==
            [i \in 1..Len(question.incorrect_answers) |->
                decodeHtmlEntities(question.incorrect_answers[i])]
        options == <<decodedCorrectAnswer>> \o decodedIncorrectAnswers
        shuffledOptions == shuffleArray(options, rnd)
    IN  [id |-> index + 1,
         category |-> decodeHtmlEntities(question.category),
         type |-> question.type,
         difficulty |-> question.difficulty,
         question |-> decodedQuestion,
         correct_answer |-> decodedCorrectAnswer,
         options |-> shuffledOptions,
         user_answer |-> UNDEF,
         is_answered |-> FALSE,
         is_visited |-> FALSE]

\* processQuizQuestions that hands the questions out last to first.
processQuizQuestionsReversed(questions, rnds) ==
    [k \in 1..Len(questions) |->
        ProcessQuestion(questions[Len(questions) + 1 - k], k - 1,
                        rnds[Len(questions) + 1 - k])]

\* rnds[k] are the random choices made while shuffling the k-th question.
processQuizQuestions(questions, rnds) ==
    [k \in 1..Len(questions) |-> ProcessQuestion(questions[k], k - 1, rnds[k])]

\* Every way the random source can answer during one processQuizQuestions call.
RECURSIVE ChoiceSeqs(_)
ChoiceSeqs(questions) ==
    IF questions = <<>> THEN {<<>>}
    ELSE {<<rnd>> \o rest :
            rnd \in RandomChoices(1 + Len(Head(questions).incorrect_answers)),
            rest \in ChoiceSeqs(Tail(questions))}

\* Raw questions as the trivia source may deliver them.
Raw(question, correct, incorrect) ==
    [category |-> T_C, type |-> "multiple", difficulty |-> "easy",
     question |-> question, correct_answer |-> correct, incorrect_answers |-> incorrect]

RawPool ==
    { Raw(T_TomRaw, T_A, <<T_B, T_C>>),
      Raw(T_Foo, T_AmpEntity, <<T_A>>),
      Raw(T_AmpLt, T_Apos039, <<T_AposEntity, T_B>>),
      Raw(T_A, T_A, <<T_B, T_A>>),
      Raw(T_A, T_B, <<>>),
      Raw(T_B, T_A, <<T_B, T_C, T_AmpEntity>>) }

RECURSIVE SeqsUpTo(_, _)
SeqsUpTo(S, n) ==
    IF n = 0 THEN {<<>>}
    ELSE SeqsUpTo(S, n - 1) \cup
         {Append(s, x) : s \in {t \in SeqsUpTo(S, n - 1) : Len(t) = n - 1}, x \in S}

\* ---------------------------------------------------------------- formatTime
Digits == <<"0", "1", "2", "3", "4", "5", "6", "7", "8", "9">>

\* Number.prototype.toString() of a whole number n >= 0
RECURSIVE NumberToString(_)
NumberToString(n) ==
    IF n < 10 THEN <<Digits[n + 1]>>
    ELSE NumberToString(n \div 10) \o <<Digits[(n % 10) + 1]>>

\* padStart that adds nothing.
PadStartNot(text, targetLength, padString) == text

\* String.prototype.padStart(targetLength, padString), padString one character
RECURSIVE PadStart(_, _, _)
PadStart(text, targetLength, padString) ==
    IF Len(text) >= targetLength THEN text
    ELSE PadStart(<<padString>> \o text, targetLength, padString)

formatTime(secs) ==
    LET minutes == secs \div 60
        remainingSeconds == secs % 60
    IN  PadStart(NumberToString(minutes), 2, "0") \o <<":">>
            \o PadStart(NumberToString(remainingSeconds), 2, "0")

\* ------------------------------------------------------------ calculateScore
\* filter(...).length
CountWhere(seq, P(_)) == Cardinality({k \in DOMAIN seq : P(seq[k])})

\* Math.round of the non-negative quotient num / den (den > 0): halves round up.
MathRound(num, den) == (2 * num + den) \div (2 * den)

calculateScore(questions) ==
    LET answered == CountWhere(questions, LAMBDA q : q.is_answered)
        correct == CountWhere(questions,
                       LAMBDA q : q.is_answered /\ q.user_answer = q.correct_answer)
    IN  IF answered = 0 THEN 0 ELSE MathRound(correct * 100, answered)

\* --------------------------------------------------------- createQuizResults
\* q.user_answer || 'Not answered': undefined and the empty string are falsy.
OrNotAnswered(user_answer) ==
    IF user_answer = UNDEF \/ user_answer = T_Empty THEN NOT_ANSWERED ELSE user_answer

\* IsCorrect with a slip: the reported answer (sentinel included) is compared.
IsCorrectOfReported(q) == OrNotAnswered(q.user_answer) = q.correct_answer

\* q.user_answer === q.correct_answer
IsCorrect(q) == q.user_answer = q.correct_answer

QuestionResult(q) ==
    [question_id |-> q.id,
     question |-> q.question,
     user_answer |-> OrNotAnswered(q.user_answer),
     correct_answer |-> q.correct_answer,
     is_correct |-> IsCorrect(q),
     category |-> q.category,
     difficulty |-> q.difficulty]

\* session.time_remaining ? (30 * 60 - session.time_remaining) : 0
\* (the 30 * 60 written out in createQuizResults is TOTAL_TIME's value)
TimeTaken(time_remaining) ==
    IF time_remaining # 0 THEN TOTAL_TIME - time_remaining ELSE 0

\* now is the value of new Date()
\* createQuizResults that reads the clock for time_taken as well.
createQuizResultsByClock(sess, now) ==
    LET questionResults == [k \in 1..Len(sess.questions) |-> QuestionResult(sess.questions[k])]
    IN  [user_email |-> sess.user_email,
         score |-> calculateScore(sess.questions),
         total_questions |-> sess.total_questions,
         correct_answers |-> CountWhere(questionResults, LAMBDA r : r.is_correct),
         incorrect_answers |->
             CountWhere(questionResults,
                 LAMBDA r : ~r.is_correct /\ r.user_answer # NOT_ANSWERED),
         unanswered_questions |->
             CountWhere(questionResults, LAMBDA r : r.user_answer = NOT_ANSWERED),
         time_taken |-> now,
         completion_date |-> now,
         question_results |-> questionResults]

createQuizResults(sess, now) ==
    LET questionResults == [k \in 1..Len(sess.questions) |-> QuestionResult(sess.questions[k])]
    IN  [user_email |-> sess.user_email,
         score |-> calculateScore(sess.questions),
         total_questions |-> sess.total_questions,
         correct_answers |-> CountWhere(questionResults, LAMBDA r : r.is_correct),
         incorrect_answers |->
             CountWhere(questionResults,
                 LAMBDA r : ~r.is_correct /\ r.user_answer # NOT_ANSWERED),
         unanswered_questions |->
             CountWhere(questionResults, LAMBDA r : r.user_answer = NOT_ANSWERED),
         time_taken |-> TimeTaken(sess.time_remaining),
         completion_date |-> now,
         question_results |-> questionResults]

\* Values of new Date() (two instants are enough to tell two calls apart).
Dates == {1, 2}

\* A question as it stands in a session once the user has (or has not) answered.
Scored(correct, other, user) ==
    [id |-> 1, category |-> T_C, type |-> "multiple", difficulty |-> "easy",
     question |-> T_A, correct_answer |-> correct, options |-> <<other, correct>>,
     user_answer |-> user, is_answered |-> (user # UNDEF), is_visited |-> TRUE]

ScoredPool ==
    { Scored(T_A, T_B, UNDEF), Scored(T_A, T_B, T_A), Scored(T_A, T_B, T_B),
      Scored(T_A, T_Empty, T_Empty), Scored(T_A, NOT_ANSWERED, NOT_ANSWERED),
      Scored(NOT_ANSWERED, T_B, NOT_ANSWERED), Scored(NOT_ANSWERED, T_B, UNDEF),
      Scored(T_Empty, T_B, T_Empty) }

\* The questions of a session carry the ids 1..N that processQuizQuestions gave.
Renumber(questions) == [k \in 1..Len(questions) |-> [questions[k] EXCEPT !.id = k]]

\* What handleFinishQuiz hands to createQuizResults.
FinalSessions ==
    { [user_email |-> T_A,
       questions |-> Renumber(qs),
       current_question_index |-> 0,
       time_remaining |-> t,
       is_completed |-> TRUE,
       total_questions |-> TOTAL_QUESTIONS] :
      qs \in SeqsUpTo(ScoredPool, MaxScored), t \in 0..TOTAL_TIME }

\* ------------------------------------------------------------- validateEmail
\* String.prototype.trim (the only white space of the model is " ")
RECURSIVE Trim(_)
Trim(text) ==
    IF text = <<>> THEN text
    ELSE IF Head(text) = " " THEN Trim(Tail(text))
    ELSE IF text[Len(text)] = " " THEN Trim(SubSeq(text, 1, Len(text) - 1))
    ELSE text

\* \s, as far as the texts of the model go
IsWhiteSpace(c) == c \in {" ", "\t", "\n"}

\* A character class that lets "@" through.
InClassLax(c) == ~IsWhiteSpace(c)

\* [^\s@]
InClass(c) == ~IsWhiteSpace(c) /\ c # "@"

\* /^[^\s@]+@[^\s@]+\.[^\s@]+$/ read one character further.  A state is how
\* much of the pattern is matched: 0 nothing, 1 inside the first [^\s@]+,
\* 2 the "@", 3 inside the second [^\s@]+, 4 the "\.", 5 inside the third
\* [^\s@]+.  states holds every state some way of matching can be in (a "."
\* inside the second run can also be the "\.").
RegexStep(states, c) ==
    {t \in 1..5 :
        \/ t = 1 /\ InClass(c) /\ states \cap {0, 1} # {}
        \/ t = 2 /\ c = "@" /\ 1 \in states
        \/ t = 3 /\ InClass(c) /\ states \cap {2, 3} # {}
        \/ t = 4 /\ c = "." /\ 3 \in states
        \/ t = 5 /\ InClass(c) /\ states \cap {4, 5} # {}}

RECURSIVE RegexRun(_, _)
RegexRun(states, text) ==
    IF text = <<>> THEN states
    ELSE RegexRun(RegexStep(states, Head(text)), Tail(text))

\* emailRegex.test(email): the whole text is matched
validateEmail(text) == 5 \in RegexRun({0}, text)

E_Valid == <<"a", "@", "b", ".", "c">>
E_Invalid == <<"a", "@", "b">>
E_Blank == <<" ">>
E_Padded == <<" ", "a", "@", "b", ".", "c", " ">>
E_Co == <<"a", "@", "b", ".", "c", "o">>
E_Spaced == <<"a", " ", "b", "@", "c", ".", "c", "o", "m">>
\* What the user may type into the email field.
Emails == {T_Empty, E_Blank, E_Invalid, E_Padded}

\* ------------------------------------------------- the question source (GET)
\* The questions the trivia source holds: the k-th question of a response.
BankQuestion(k) ==
    IF k % 2 = 1 THEN Raw(T_TomRaw, T_AmpEntity, <<T_A>>) ELSE Raw(T_Foo, T_A, <<T_B>>)

UpstreamResults == {[k \in 1..n |-> BankQuestion(k)] : n \in 1..TOTAL_QUESTIONS}

\* What the proxy's fetch of the trivia source can end in: the exchange fails
\* ("transport"), is aborted by AbortSignal.timeout ("timeout"), brings a body
\* that is no JSON ("malformed"), or brings an HTTP response with a JSON body.
UpstreamOutcomes ==
    {[kind |-> k, ok |-> FALSE, response_code |-> 0, results |-> <<>>] :
        k \in {"transport", "timeout", "malformed"}}
    \cup {[kind |-> "http", ok |-> FALSE, response_code |-> 0, results |-> <<>>]}
    \cup {[kind |-> "http", ok |-> TRUE, response_code |-> c, results |-> <<>>] : c \in {1, 5}}
    \cup {[kind |-> "http", ok |-> TRUE, response_code |-> 0, results |-> r] : r \in UpstreamResults}
    \cup {[kind |-> "http", ok |-> TRUE, response_code |-> 1, results |-> r] : r \in UpstreamResults}

\* The response of the proxy route GET /api/quiz to one upstream outcome: the
\* upstream data with status 200, or the error body with status 500 (it has
\* no response_code field: -1 stands for the missing field).
\* ProxyThrows with a slip: the response_code of the body is not looked at.
ProxyThrowsOnHttpOnly(upstream) ==
    \/ upstream.kind # "http"
    \/ ~upstream.ok

\* The route's try block throws: fetch failed, !response.ok, response.json()
\* failed, or data.response_code !== 0.
ProxyThrows(upstream) ==
    \/ upstream.kind # "http"
    \/ ~upstream.ok
    \/ upstream.response_code # 0

GET(upstream) ==
    IF ProxyThrows(upstream)
    THEN [status |-> 500, response_code |-> -1, results |-> <<>>]
    ELSE [status |-> 200, response_code |-> upstream.response_code,
          results |-> upstream.results]

\* How the browser's own request to the proxy can end.
Links == {"ok", "transport", "timeout"}

\* response.ok
ResponseOk(response) == response.status \in 200..299

\* fetchQuizQuestions: TRUE when it throws its ApiError.
FetchThrows(link, response) ==
    \/ link # "ok"
    \/ ~ResponseOk(response)
    \/ response.response_code # 0

\* fetchQuizQuestions(TOTAL_QUESTIONS) seen from its caller: the processed
\* questions, or the rejection.
fetchQuizQuestions(link, response, rnds) ==
    IF FetchThrows(link, response)
    THEN [ok |-> FALSE, questions |-> <<>>]
    ELSE [ok |-> TRUE, questions |-> processQuizQuestions(response.results, rnds)]

VARIABLES
    rawQuestions, processed,   \* processQuizQuestions on its own: argument, result
    finalSession, summary,     \* createQuizResults on its own: argument, result
    summaryAgain,              \* the result of a second call on the same argument
    emailText, emailVerdict,   \* validateEmail on its own: argument, result
    seconds, formatted,        \* formatTime on its own: argument, result
    mounted,                   \* QuizAppContent is mounted
    quizState, loadingState, session, results, timeRemaining, timerInterval,
                               \* the useState cells of QuizAppContent
    liveIntervals,             \* ids that setInterval gave out and clearInterval has not had
    staleTimeRemaining,        \* the timeRemaining closed over by the handleFinishQuiz
                               \* that the memoised handleTimeUp calls
    timeUpPending,             \* Timer's time-up effect is scheduled and has not run
    selectedAnswer,            \* the useState cell of QuizQuestion
    email, emailError, isValidating,   \* the useState cells of StartPage
    flow,                      \* the start-quiz flow in flight: its await and its email
    lastFetch,                 \* history: the last exchange with the question source
    startLog,                  \* history: the flows and fetches that the latest start
                               \* action set going; mark flips at every start action
    answerChanged,             \* history: in this session an answer was selected for a
                               \* question that already had one
    restarted                  \* history: handleRestartQuiz or handleGoHome has run

procVars == <<rawQuestions, processed>>
scoreVars == <<finalSession, summary, summaryAgain>>
utilVars == <<emailText, emailVerdict, seconds, formatted>>
pageVars == <<quizState, loadingState, session, results, timeRemaining, timerInterval>>
startPageVars == <<email, emailError, isValidating>>
appVars == <<mounted, pageVars, liveIntervals, staleTimeRemaining, timeUpPending,
             selectedAnswer, startPageVars, flow, lastFetch, startLog, answerChanged, restarted>>
vars == <<procVars, scoreVars, utilVars, appVars>>

ProcIdle == rawQuestions = <<>> /\ processed = NULL
ScoreIdle == finalSession = NULL /\ summary = NULL /\ summaryAgain = NULL
UtilIdle == emailText = <<>> /\ emailVerdict = NULL /\ seconds = 0 /\ formatted = NULL

NoFlow == [phase |-> "idle", email |-> T_Empty]
NoStart == [flows |-> 0, fetches |-> 0, mark |-> FALSE]
NoFetch == [made |-> FALSE, kind |-> "none", ok |-> FALSE, response_code |-> 0,
            link |-> "ok", status |-> 0, returned |-> FALSE,
            questions |-> <<>>]
LoadingIdle == [isLoading |-> FALSE, error |-> "undefined", progress |-> 0]

\* The state after the first render of QuizAppContent and StartPage.
AppInit ==
    /\ mounted = TRUE
    /\ quizState = "start"
    /\ loadingState = LoadingIdle
    /\ session = NULL
    /\ results = NULL
    /\ timeRemaining = TOTAL_TIME
    /\ timerInterval = 0
    /\ liveIntervals = {}
    /\ staleTimeRemaining = TOTAL_TIME
    /\ timeUpPending = FALSE
    /\ selectedAnswer = UNDEF
    /\ email = T_Empty
    /\ emailError = ""
    /\ isValidating = FALSE
    /\ flow = NoFlow
    /\ lastFetch = NoFetch
    /\ startLog = NoStart
    /\ answerChanged = FALSE
    /\ restarted = FALSE

\* ------------------------------------------------------------ what is rendered
\* The branch of QuizAppContent's render that is taken.
Screen ==
    IF ~mounted THEN "none"
    ELSE IF quizState = "loading" THEN "loading"
    ELSE IF quizState = "start" THEN "start"
    ELSE IF quizState = "quiz" /\ session # NULL THEN "quiz"
    ELSE IF quizState = "results" /\ results # NULL THEN "results"
    ELSE "fallback"

\* The error text on the screen: the loading view shows loadingState.error,
\* StartPage shows its own emailError, no other view shows an error.
VisibleError ==
    IF Screen = "loading" /\ loadingState.error # "undefined" THEN loadingState.error
    ELSE IF Screen = "start" THEN emailError
    ELSE ""

\* StartPage's field and button are disabled while isLoading or isValidating.
StartPageEnabled == Screen = "start" /\ ~loadingState.isLoading /\ ~isValidating

\* The quiz view takes no user input between the tick that brings the time
\* to zero and Timer's time-up effect (the effect runs right after the commit).
QuizInput == Screen = "quiz" /\ ~timeUpPending

currentQuestion == session[1].questions[session[1].current_question_index + 1]

\* selectedAnswer is truthy
Truthy(text) == text # UNDEF /\ text # T_Empty

\* setInterval's return value: an id no live interval has and no state holds.
NewInterval ==
    CHOOSE n \in 1..(Cardinality(liveIntervals) + 2) :
        /\ n \notin liveIntervals \cup {timerInterval}
        /\ \A m \in 1..(n - 1) : m \in liveIntervals \cup {timerInterval}

\* StartPage is mounted anew (its state is initial) whenever the start view appears.
StartPageFresh == email' = T_Empty /\ emailError' = "" /\ isValidating' = FALSE

\* ------------------------------------------------------------------ StartPage
handleEmailChange(newEmail) ==
    /\ StartPageEnabled
    /\ email' = newEmail
    /\ emailError' = ""
    /\ UNCHANGED <<procVars, scoreVars, utilVars, mounted, pageVars, liveIntervals,
                   staleTimeRemaining, timeUpPending, selectedAnswer, isValidating,
                   flow, lastFetch, startLog, answerChanged, restarted>>

\* A Start button that is never disabled.
ButtonNeverDisabled(isLoading, validating, mail) == FALSE

\* The Start button: disabled={isLoading || isValidating || !email.trim()}
ButtonDisabled(isLoading, validating, mail) ==
    isLoading \/ validating \/ Trim(mail) = T_Empty

\* handleStartQuiz without its two checks.
StartAttemptUnchecked(mail) == [validated |-> TRUE, email |-> Trim(mail), error |-> ""]

\* StartPage.handleStartQuiz up to its await: the error it sets, if any, and
\* whether it goes on to the delay and onStartQuiz(trimmedEmail).
StartAttempt(mail) ==
    LET trimmedEmail == Trim(mail)
    IN  IF trimmedEmail = T_Empty
        THEN [validated |-> FALSE, email |-> trimmedEmail,
              error |-> "Please enter your email address"]
        ELSE IF ~validateEmail(trimmedEmail)
        THEN [validated |-> FALSE, email |-> trimmedEmail,
              error |-> "Please enter a valid email address"]
        ELSE [validated |-> TRUE, email |-> trimmedEmail, error |-> ""]

\* One click on the Start button (or Enter in the field, which clicks the
\* form's default button).  The click event runs onClick={handleStartQuiz};
\* the state it set is rendered before the event's default action; the
\* default action of a submit button that is not disabled by then submits the
\* form, and onSubmit={handleSubmit} runs handleStartQuiz once more.
StartClick ==
    /\ StartPageEnabled
    /\ ~ButtonDisabled(loadingState.isLoading, isValidating, email)
    /\ LET onClick == StartAttempt(email)
           submitted == ~ButtonDisabled(loadingState.isLoading, onClick.validated, email)
           onSubmit == StartAttempt(email)
           flows == (IF onClick.validated THEN 1 ELSE 0)
                        + (IF submitted /\ onSubmit.validated THEN 1 ELSE 0)
       IN  /\ emailError' = (IF ~onClick.validated THEN onClick.error
                             ELSE IF submitted /\ ~onSubmit.validated THEN onSubmit.error
                             ELSE emailError)
           /\ isValidating' = (flows > 0)
           /\ flow' = (IF flows > 0 THEN [phase |-> "delay", email |-> onClick.email]
                       ELSE flow)
           /\ startLog' = [flows |-> flows, fetches |-> 0, mark |-> ~startLog.mark]
    /\ UNCHANGED <<procVars, scoreVars, utilVars, mounted, pageVars, liveIntervals,
                   staleTimeRemaining, timeUpPending, selectedAnswer, email, lastFetch,
                   answerChanged, restarted>>

\* The 500 ms delay is over: onStartQuiz(trimmedEmail), that is
\* QuizAppContent.handleStartQuiz up to its await of fetchQuizQuestions.
\* A state setter of an unmounted component does nothing.
StartQuizCalled ==
    /\ flow.phase = "delay"
    /\ flow' = [flow EXCEPT !.phase = "fetch"]
    /\ startLog' = [startLog EXCEPT !.fetches = @ + 1]
    /\ IF mounted
       THEN /\ quizState' = "loading"
            /\ loadingState' = [isLoading |-> TRUE, error |-> "undefined", progress |-> 25]
            /\ StartPageFresh
       ELSE UNCHANGED <<quizState, loadingState, startPageVars>>
    /\ UNCHANGED <<procVars, scoreVars, utilVars, mounted, session, results, timeRemaining,
                   timerInterval, liveIntervals, staleTimeRemaining, timeUpPending,
                   selectedAnswer, lastFetch, answerChanged, restarted>>

\* ------------------------------------------------------------- QuizAppContent
\* A start that leaves the questions as processQuizQuestions returned them.
MarkNoneVisited(questions) == questions

\* questions.map((q, index) => ({...q, is_visited: index === 0}))
MarkFirstVisited(questions) ==
    [k \in 1..Len(questions) |-> [questions[k] EXCEPT !.is_visited = (k - 1 = 0)]]

NewSession(userEmail, questions) ==
    [user_email |-> userEmail,
     questions |-> MarkFirstVisited(questions),
     current_question_index |-> 0,
     time_remaining |-> TOTAL_TIME,
     is_completed |-> FALSE,
     total_questions |-> TOTAL_QUESTIONS]

\* questions is what fetchQuizQuestions handed back (none when it threw).
FetchRecord(upstream, link, response, returned, questions) ==
    [made |-> TRUE, kind |-> upstream.kind, ok |-> upstream.ok,
     response_code |-> upstream.response_code, link |-> link,
     status |-> response.status, returned |-> returned, questions |-> questions]

\* fetchQuizQuestions returned: the rest of handleStartQuiz's try block, with
\* startTimer and, once the new timerInterval is committed, the clean-up of
\* the effect that held the previous one.
StartQuizResolved(upstream, link, rnds) ==
    LET response == GET(upstream)
        fetched == fetchQuizQuestions(link, response, rnds)
        interval == NewInterval
    IN  /\ flow.phase = "fetch"
        /\ fetched.ok
        /\ flow' = NoFlow
        /\ lastFetch' = FetchRecord(upstream, link, response, TRUE, fetched.questions)
        /\ IF mounted
           THEN /\ session' = Some(NewSession(flow.email, fetched.questions))
                /\ timeRemaining' = TOTAL_TIME
                /\ quizState' = "quiz"
                /\ loadingState' = [loadingState EXCEPT !.progress = 75]
                /\ timerInterval' = interval
                /\ liveIntervals' = (liveIntervals \ {timerInterval}) \cup {interval}
                /\ staleTimeRemaining' = TOTAL_TIME
                /\ timeUpPending' = FALSE
                /\ selectedAnswer' = UNDEF
                /\ answerChanged' = FALSE
           ELSE /\ liveIntervals' = liveIntervals \cup {interval}
                /\ UNCHANGED <<pageVars, staleTimeRemaining, timeUpPending, selectedAnswer,
                               answerChanged, restarted>>
        /\ UNCHANGED <<procVars, scoreVars, utilVars, mounted, results, startPageVars,
                       startLog, restarted>>

\* fetchQuizQuestions threw: handleStartQuiz's catch block.  The ApiError it
\* throws is no Error instance, so the message is the fixed one.
StartQuizRejected(upstream, link) ==
    LET response == GET(upstream)
    IN  /\ flow.phase = "fetch"
        /\ FetchThrows(link, response)
        /\ flow' = NoFlow
        /\ lastFetch' = FetchRecord(upstream, link, response, FALSE, <<>>)
        /\ IF mounted
           THEN /\ loadingState' = [isLoading |-> FALSE,
                                    error |-> "Failed to load quiz questions",
                                    progress |-> 0]
                /\ quizState' = "start"
                /\ StartPageFresh
           ELSE UNCHANGED <<quizState, loadingState, startPageVars>>
        /\ UNCHANGED <<procVars, scoreVars, utilVars, mounted, session, results, timeRemaining,
                       timerInterval, liveIntervals, staleTimeRemaining, timeUpPending,
                       selectedAnswer, startLog, answerChanged, restarted>>

\* A countdown that takes two seconds off at a time.
CountdownByTwo(prev) == IF prev <= 2 THEN 0 ELSE prev - 2

\* The updater that the interval callback hands to setTimeRemaining.
Countdown(prev) == IF prev <= 1 THEN 0 ELSE prev - 1

\* A tick whose handleTimeUp stops the timer when the time is up.
TickStopping ==
    /\ liveIntervals # {}
    /\ mounted
    /\ timeRemaining' = Countdown(timeRemaining)
    /\ timeUpPending' =
           (timeUpPending
            \/ (Screen = "quiz" /\ timeRemaining' # timeRemaining /\ timeRemaining' <= 0))
    /\ IF timeRemaining <= 1
       THEN liveIntervals' = liveIntervals \ {timerInterval} /\ timerInterval' = 0
       ELSE UNCHANGED <<liveIntervals, timerInterval>>
    /\ UNCHANGED <<procVars, scoreVars, utilVars, mounted, quizState, loadingState, session,
                   results, staleTimeRemaining, selectedAnswer, startPageVars, flow,
                   lastFetch, startLog, answerChanged, restarted>>

\* The countdown callback of startTimer.  Its handleTimeUp is the one of the
\* first render (startTimer is memoised with no dependencies): there
\* timerInterval and session are null, so it clears nothing and finishes
\* nothing.  Timer's effect is scheduled when the rendered time becomes zero.
Tick ==
    /\ liveIntervals # {}
    /\ IF mounted
       THEN /\ timeRemaining' = Countdown(timeRemaining)
            /\ timeUpPending' =
                   (timeUpPending
                    \/ (Screen = "quiz" /\ timeRemaining' # timeRemaining /\ timeRemaining' <= 0))
       ELSE UNCHANGED <<timeRemaining, timeUpPending>>
    /\ UNCHANGED <<procVars, scoreVars, utilVars, mounted, quizState, loadingState, session, results,
                   timerInterval, liveIntervals, staleTimeRemaining, selectedAnswer,
                   startPageVars, flow, lastFetch, startLog, answerChanged, restarted>>

\* A completion that leaves the countdown running.
handleFinishQuizTimerOn(closureTimeRemaining, now) ==
    /\ session # NULL
    /\ UNCHANGED <<liveIntervals, timerInterval>>
    /\ results' = Some(createQuizResults(
                      [session[1] EXCEPT !.time_remaining = closureTimeRemaining,
                                         !.is_completed = TRUE], now))
    /\ quizState' = "results"
    /\ staleTimeRemaining' = (IF timerInterval # 0 THEN timeRemaining ELSE staleTimeRemaining)
    /\ timeUpPending' = FALSE
    /\ selectedAnswer' = UNDEF
    /\ UNCHANGED <<procVars, scoreVars, utilVars, mounted, loadingState, session, timeRemaining,
                   startPageVars, flow, lastFetch, startLog, answerChanged, restarted>>

\* handleFinishQuiz as memoised in a render whose timeRemaining was
\* closureTimeRemaining: stopTimer, createQuizResults, the results view.
\* The render that follows memoises handleTimeUp anew (stopTimer changed).
handleFinishQuiz(closureTimeRemaining, now) ==
    /\ session # NULL
    /\ liveIntervals' = liveIntervals \ {timerInterval}
    /\ timerInterval' = 0
    /\ results' = Some(createQuizResults(
                      [session[1] EXCEPT !.time_remaining = closureTimeRemaining,
                                         !.is_completed = TRUE], now))
    /\ quizState' = "results"
    /\ staleTimeRemaining' = (IF timerInterval # 0 THEN timeRemaining ELSE staleTimeRemaining)
    /\ timeUpPending' = FALSE
    /\ selectedAnswer' = UNDEF
    /\ UNCHANGED <<procVars, scoreVars, utilVars, mounted, loadingState, session, timeRemaining,
                   startPageVars, flow, lastFetch, startLog, answerChanged, restarted>>

\* Timer's effect: timeRemaining <= 0, so onTimeUp(), the handleTimeUp of the
\* current render.  It is memoised on [session, stopTimer] and so calls the
\* handleFinishQuiz of the render in which session or timerInterval last changed.
TimerTimeUp ==
    /\ Screen = "quiz"
    /\ timeUpPending
    /\ \E now \in Dates : handleFinishQuiz(staleTimeRemaining, now)

\* A radio group that offers every text, whatever the question's options.
IsOfferedAny(question, answer) == TRUE

\* The radio group holds one Radio per element of question.options, its value
\* being the option: these are the values a change can report.
IsOffered(question, answer) ==
    \E k \in DOMAIN question.options : question.options[k] = answer

\* A selection that records the text and leaves is_answered as it was.
handleAnswerSelectTextOnly(answer) ==
    /\ QuizInput
    /\ IsOffered(currentQuestion, answer)
    /\ answer # (IF Truthy(selectedAnswer) THEN selectedAnswer ELSE T_Empty)
    /\ selectedAnswer' = answer
    /\ session' = Some([session[1] EXCEPT !.questions =
                           [k \in DOMAIN @ |->
                               IF @[k].id = currentQuestion.id
                               THEN [@[k] EXCEPT !.user_answer = answer]
                               ELSE @[k]]])
    /\ staleTimeRemaining' = timeRemaining
    /\ answerChanged' = (answerChanged \/ currentQuestion.is_answered)
    /\ UNCHANGED <<procVars, scoreVars, utilVars, mounted, quizState, loadingState, results,
                   timeRemaining, timerInterval, liveIntervals, timeUpPending,
                   startPageVars, flow, lastFetch, startLog, restarted>>

\* QuizQuestion.handleAnswerSelect and QuizAppContent.handleAnswerSelect: the
\* radio group reports a change to an option other than the one it shows.
handleAnswerSelect(answer) ==
    /\ QuizInput
    /\ IsOffered(currentQuestion, answer)
    /\ answer # (IF Truthy(selectedAnswer) THEN selectedAnswer ELSE T_Empty)
    /\ selectedAnswer' = answer
    /\ session' = Some([session[1] EXCEPT !.questions =
                           [k \in DOMAIN @ |->
                               IF @[k].id = currentQuestion.id
                               THEN [@[k] EXCEPT !.user_answer = answer, !.is_answered = TRUE]
                               ELSE @[k]]])
    /\ staleTimeRemaining' = timeRemaining
    /\ answerChanged' = (answerChanged \/ currentQuestion.is_answered)
    /\ UNCHANGED <<procVars, scoreVars, utilVars, mounted, quizState, loadingState, results,
                   timeRemaining, timerInterval, liveIntervals, timeUpPending,
                   startPageVars, flow, lastFetch, startLog, restarted>>

\* A navigation that keeps only the shown question marked as visited.
NavigateUnmarking(questionIndex) ==
    /\ session' = Some([session[1] EXCEPT
                           !.current_question_index = questionIndex,
                           !.questions = [k \in DOMAIN @ |->
                               [@[k] EXCEPT !.is_visited = (k - 1 = questionIndex)]]])
    /\ selectedAnswer' =
           (IF questionIndex # session[1].current_question_index
            THEN session[1].questions[questionIndex + 1].user_answer
            ELSE selectedAnswer)
    /\ staleTimeRemaining' = timeRemaining
    /\ UNCHANGED <<procVars, scoreVars, utilVars, mounted, quizState, loadingState, results,
                   timeRemaining, timerInterval, liveIntervals, timeUpPending,
                   startPageVars, flow, lastFetch, startLog, answerChanged, restarted>>

\* QuizAppContent.handleQuestionNavigate; QuizQuestion's effect on
\* [question.id] then resets selectedAnswer to the shown question's answer.
Navigate(questionIndex) ==
    /\ session' = Some([session[1] EXCEPT
                           !.current_question_index = questionIndex,
                           !.questions = [k \in DOMAIN @ |->
                               IF k - 1 = questionIndex
                               THEN [@[k] EXCEPT !.is_visited = TRUE]
                               ELSE @[k]]])
    /\ selectedAnswer' =
           (IF questionIndex # session[1].current_question_index
            THEN session[1].questions[questionIndex + 1].user_answer
            ELSE selectedAnswer)
    /\ staleTimeRemaining' = timeRemaining
    /\ UNCHANGED <<procVars, scoreVars, utilVars, mounted, quizState, loadingState, results,
                   timeRemaining, timerInterval, liveIntervals, timeUpPending,
                   startPageVars, flow, lastFetch, startLog, answerChanged, restarted>>

\* QuestionNavigation.handleQuestionClick: every cell of the grid is clickable.
handleQuestionNavigate(questionIndex) ==
    /\ QuizInput
    /\ questionIndex \in 0..(Len(session[1].questions) - 1)
    /\ Navigate(questionIndex)

\* The Next button (enabled once an answer is selected) on a question that is
\* not the total_questions-th: QuizQuestion.handleNext, handleNextQuestion.
handleNextQuestion ==
    /\ QuizInput
    /\ Truthy(selectedAnswer)
    /\ session[1].current_question_index < session[1].total_questions - 1
    /\ IF session[1].current_question_index + 1 < Len(session[1].questions)
       THEN Navigate(session[1].current_question_index + 1)
       ELSE UNCHANGED vars

\* The Previous button (disabled on the first question): handlePreviousQuestion.
handlePreviousQuestion ==
    /\ QuizInput
    /\ session[1].current_question_index # 0
    /\ IF session[1].current_question_index - 1 >= 0
       THEN Navigate(session[1].current_question_index - 1)
       ELSE UNCHANGED vars

\* The same button on the total_questions-th question ('Finish Quiz'):
\* QuizQuestion.handleNext calls onFinishQuiz, the current handleFinishQuiz.
FinishQuiz ==
    /\ QuizInput
    /\ Truthy(selectedAnswer)
    /\ ~(session[1].current_question_index < session[1].total_questions - 1)
    /\ \E now \in Dates : handleFinishQuiz(timeRemaining, now)

\* A way back to the start view that keeps the finished session.
BackToStartKeepingSession ==
    /\ results' = NULL
    /\ timeRemaining' = TOTAL_TIME
    /\ loadingState' = LoadingIdle
    /\ quizState' = "start"
    /\ StartPageFresh
    /\ restarted' = TRUE
    /\ UNCHANGED <<procVars, scoreVars, utilVars, mounted, session, timerInterval,
                   liveIntervals, staleTimeRemaining, timeUpPending, selectedAnswer, flow,
                   lastFetch, startLog, answerChanged>>

\* handleRestartQuiz and handleGoHome have the same body.
BackToStart ==
    /\ session' = NULL
    /\ results' = NULL
    /\ timeRemaining' = TOTAL_TIME
    /\ loadingState' = LoadingIdle
    /\ quizState' = "start"
    /\ staleTimeRemaining' = (IF session # NULL THEN TOTAL_TIME ELSE staleTimeRemaining)
    /\ StartPageFresh
    /\ restarted' = TRUE
    /\ UNCHANGED <<procVars, scoreVars, utilVars, mounted, timerInterval, liveIntervals,
                   timeUpPending, selectedAnswer, flow, lastFetch, startLog, answerChanged>>

handleRestartQuiz == Screen = "results" /\ BackToStart

handleGoHome == Screen = "results" /\ BackToStart

\* QuizAppContent is unmounted: the clean-up of the effect on [timerInterval].
Unmount ==
    /\ mounted
    /\ mounted' = FALSE
    /\ liveIntervals' = liveIntervals \ {timerInterval}
    /\ timeUpPending' = FALSE
    /\ UNCHANGED <<procVars, scoreVars, utilVars, pageVars, staleTimeRemaining, selectedAnswer,
                   startPageVars, flow, lastFetch, startLog, answerChanged, restarted>>

Init == AppInit /\ ProcIdle /\ ScoreIdle /\ UtilIdle

Next ==
    \/ \E newEmail \in Emails : handleEmailChange(newEmail)
    \/ StartClick
    \/ StartQuizCalled
    \/ \E upstream \in UpstreamOutcomes, link \in Links :
          \E rnds \in ChoiceSeqs(upstream.results) : StartQuizResolved(upstream, link, rnds)
    \/ \E upstream \in UpstreamOutcomes, link \in Links : StartQuizRejected(upstream, link)
    \/ Tick
    \/ TimerTimeUp
    \/ \E answer \in {T_A, T_B, T_Amp} : handleAnswerSelect(answer)
    \/ \E questionIndex \in 0..(TOTAL_QUESTIONS - 1) : handleQuestionNavigate(questionIndex)
    \/ handleNextQuestion
    \/ handlePreviousQuestion
    \/ FinishQuiz
    \/ handleRestartQuiz
    \/ handleGoHome
    \/ Unmount

Spec == Init /\ [][Next]_vars

\* ------------------------------------------- processQuizQuestions on its own
ProcInit ==
    /\ rawQuestions \in SeqsUpTo(RawPool, MaxRaw)
    /\ processed = NULL
    /\ ScoreIdle
    /\ UtilIdle
    /\ AppInit

Process ==
    /\ processed = NULL
    /\ \E rnds \in ChoiceSeqs(rawQuestions) :
          processed' = Some(processQuizQuestions(rawQuestions, rnds))
    /\ UNCHANGED <<rawQuestions, scoreVars, utilVars, appVars>>

ProcNext == Process

ProcSpec == ProcInit /\ [][ProcNext]_vars

\* --------------------------------------------- createQuizResults on its own
ScoreInit ==
    /\ finalSession \in {Some(s) : s \in FinalSessions}
    /\ summary = NULL
    /\ summaryAgain = NULL
    /\ ProcIdle
    /\ UtilIdle
    /\ AppInit

Score ==
    /\ summary = NULL
    /\ \E now \in Dates : summary' = Some(createQuizResults(finalSession[1], now))
    /\ UNCHANGED <<finalSession, summaryAgain, procVars, utilVars, appVars>>

\* createQuizResults called once more on the same session.
ScoreAgain ==
    /\ summary # NULL
    /\ summaryAgain = NULL
    /\ \E now \in Dates : summaryAgain' = Some(createQuizResults(finalSession[1], now))
    /\ UNCHANGED <<finalSession, summary, procVars, utilVars, appVars>>

ScoreNext == Score \/ ScoreAgain

ScoreSpec == ScoreInit /\ [][ScoreNext]_vars

\* -------------------------------------------------- validateEmail on its own
EmailAlphabet == {"a", "@", ".", " "}

EmailTexts == SeqsUpTo(EmailAlphabet, MaxEmailLen) \cup {E_Co, E_Invalid, E_Spaced}

EmailInit ==
    /\ emailText \in EmailTexts
    /\ emailVerdict = NULL
    /\ seconds = 0 /\ formatted = NULL
    /\ ProcIdle
    /\ ScoreIdle
    /\ AppInit

Validate ==
    /\ emailVerdict = NULL
    /\ emailVerdict' = Some(validateEmail(emailText))
    /\ UNCHANGED <<emailText, seconds, formatted, procVars, scoreVars, appVars>>

EmailNext == Validate

EmailSpec == EmailInit /\ [][EmailNext]_vars

\* ----------------------------------------------------- formatTime on its own
TimeInit ==
    /\ seconds \in 0..MaxSeconds
    /\ formatted = NULL
    /\ emailText = <<>> /\ emailVerdict = NULL
    /\ ProcIdle
    /\ ScoreIdle
    /\ AppInit

Format ==
    /\ formatted = NULL
    /\ formatted' = Some(formatTime(seconds))
    /\ UNCHANGED <<seconds, emailText, emailVerdict, procVars, scoreVars, appVars>>

TimeNext == Format

TimeSpec == TimeInit /\ [][TimeNext]_vars

\* The countdown as the browser schedules it: a live interval keeps firing,
\* and a scheduled effect runs.
LiveSpec == Spec /\ WF_vars(Tick) /\ WF_vars(TimerTimeUp)

\* ======================================================================
\* Properties
\* ======================================================================
Count(seq, x) == Cardinality({k \in DOMAIN seq : seq[k] = x})

\* ---------------------------------------------------------------- C1
\* C1 (as stated): processQuizQuestions returns one processed question per raw
\* question, each with 1 + incorrect_answers.length options, among which the
\* decoded correct answer occurs exactly once.
C1_CorrectAnswerExactlyOnce ==
    processed # NULL =>
        /\ Len(processed[1]) = Len(rawQuestions)
        /\ \A k \in DOMAIN rawQuestions :
              /\ Len(processed[1][k].options) = 1 + Len(rawQuestions[k].incorrect_answers)
              /\ processed[1][k].correct_answer =
                     decodeHtmlEntities(rawQuestions[k].correct_answer)
              /\ Count(processed[1][k].options, processed[1][k].correct_answer) = 1

\* C1 (amended): one processed question per raw question, each with
\* 1 + incorrect_answers.length options, among which the decoded correct
\* answer occurs once more than there are incorrect answers that decode to
\* the same text: exactly once when no incorrect answer does.
C1_CorrectAnswerOncePerSource ==
    processed # NULL =>
        /\ Len(processed[1]) = Len(rawQuestions)
        /\ \A k \in DOMAIN rawQuestions :
              LET same == {i \in DOMAIN rawQuestions[k].incorrect_answers :
                              decodeHtmlEntities(rawQuestions[k].incorrect_answers[i])
                                  = decodeHtmlEntities(rawQuestions[k].correct_answer)}
              IN  /\ Len(processed[1][k].options)
                         = 1 + Len(rawQuestions[k].incorrect_answers)
                  /\ processed[1][k].correct_answer =
                         decodeHtmlEntities(rawQuestions[k].correct_answer)
                  /\ Count(processed[1][k].options, processed[1][k].correct_answer)
                         = 1 + Cardinality(same)

\* Two questions processed: one whose entity-encoded correct answer was moved
\* to the last place by the shuffle, one whose options decode to the same text.
C1_Witness ==
    /\ processed # NULL
    /\ Len(rawQuestions) = 2
    /\ \E k \in DOMAIN rawQuestions :
          /\ rawQuestions[k].correct_answer = T_AmpEntity
          /\ processed[1][k].options = <<T_A, T_Amp>>
    /\ \E k \in DOMAIN rawQuestions :
          /\ rawQuestions[k].correct_answer = T_Apos039
          /\ Count(processed[1][k].options, T_Apostrophe) = 2

\* ---------------------------------------------------------------- C2
\* The score is the nearest integer to 100 * num / den.
IsRounded(score, num, den) ==
    /\ 2 * (100 * num - score * den) <= den
    /\ 2 * (score * den - 100 * num) <= den

\* C2: the reported score is round(100 * correct_answers / answered_count),
\* answered_count being the number of questions less unanswered_questions of
\* the same summary (0 when nothing was answered).
C2_ScoreOverAnswered ==
    summary # NULL =>
        LET answered_count ==
                Len(finalSession[1].questions) - summary[1].unanswered_questions
        IN  IF answered_count = 0
            THEN summary[1].score = 0
            ELSE IsRounded(summary[1].score, summary[1].correct_answers, answered_count)

\* ---------------------------------------------------------------- C3
\* C3: every question is counted in exactly one of correct, incorrect and
\* unanswered: incorrect_answers = total - correct_answers - unanswered_questions.
C3_CountsPartition ==
    summary # NULL =>
        summary[1].incorrect_answers =
            Len(finalSession[1].questions) - summary[1].correct_answers
                - summary[1].unanswered_questions

\* ---------------------------------------------------------------- C4
\* C4: is_correct holds exactly when a user answer is present and equals the
\* correct answer; a question with no user answer is never marked correct.
C4_CorrectIffPresentAndEqual ==
    summary # NULL =>
        \A k \in DOMAIN finalSession[1].questions :
            LET q == finalSession[1].questions[k]
            IN  summary[1].question_results[k].is_correct
                    <=> (q.user_answer # UNDEF /\ q.user_answer = q.correct_answer)

\* A summary with a correctly answered question and an unanswered question
\* whose correct answer is the very text reported for a missing answer.
C4_Witness ==
    /\ summary # NULL
    /\ \E k \in DOMAIN finalSession[1].questions :
          /\ finalSession[1].questions[k].user_answer = UNDEF
          /\ finalSession[1].questions[k].correct_answer = NOT_ANSWERED
          /\ ~summary[1].question_results[k].is_correct
    /\ \E k \in DOMAIN finalSession[1].questions :
          /\ finalSession[1].questions[k].user_answer = T_A
          /\ summary[1].question_results[k].is_correct

\* ---------------------------------------------------------------- C5
\* C5: the reported user_answer is the selected text when there is one and
\* the sentinel otherwise; a question is reported with the sentinel, and
\* counted as unanswered, exactly when no answer was recorded for it.
C5_SentinelIffNoAnswer ==
    summary # NULL =>
        /\ \A k \in DOMAIN finalSession[1].questions :
              LET q == finalSession[1].questions[k]
                  r == summary[1].question_results[k]
              IN  /\ q.user_answer # UNDEF => r.user_answer = q.user_answer
                  /\ r.user_answer = NOT_ANSWERED <=> q.user_answer = UNDEF
        /\ summary[1].unanswered_questions =
               CountWhere(finalSession[1].questions, LAMBDA q : q.user_answer = UNDEF)

\* ---------------------------------------------------------------- C6
\* C6: for every time_remaining in 0..TOTAL_TIME, time_taken is
\* TOTAL_TIME - time_remaining, and it is never negative.
C6_TimeTakenIsBudgetLessRemaining ==
    summary # NULL =>
        /\ summary[1].time_taken = TOTAL_TIME - finalSession[1].time_remaining
        /\ summary[1].time_taken >= 0

\* ---------------------------------------------------------------- C7
\* With the tick firing, a quiz on the screen is followed by the results.
C7_TimeUpReachesResults ==
    [](Screen = "quiz" => <>(quizState = "results" \/ ~mounted))

\* The summary shown after the time-up is the one a manual submit at that
\* moment computes (the completion timestamp apart).
C7_TimeUpSummaryAsSubmitted ==
    [][(timeUpPending /\ quizState = "quiz" /\ quizState' = "results") =>
          [results'[1] EXCEPT !.completion_date = 0] =
              createQuizResults([session[1] EXCEPT !.time_remaining = timeRemaining,
                                                   !.is_completed = TRUE], 0)]_vars

\* C7: while a quiz is in progress and the tick keeps firing, the time runs
\* out and the application goes to the results without a user action, with
\* the results a manual submit at that moment would give.
C7_AutoSubmitAsManualSubmit == C7_TimeUpReachesResults /\ C7_TimeUpSummaryAsSubmitted

\* ---------------------------------------------------------------- C8
\* C8: at most one countdown interval is live, and none is once the quiz has
\* ended (results shown after a submit or the time-up, or component unmounted).
C8_NoOrphanInterval ==
    /\ Cardinality(liveIntervals) <= 1
    /\ (quizState = "results" \/ ~mounted) => liveIntervals = {}

\* ---------------------------------------------------------------- C9
\* C9: once a question fetch has failed (the load error is recorded), the
\* user is on the start screen with the error message on it, there is no
\* session and no countdown.
C9_FetchFailureShownOnStart ==
    (mounted /\ loadingState.error # "undefined") =>
        /\ Screen = "start"
        /\ VisibleError = loadingState.error
        /\ session = NULL
        /\ liveIntervals = {}

\* ---------------------------------------------------------------- C10
\* C10: a response of the question source with a non-zero response_code is
\* never relayed by the proxy as a success, and fetchQuizQuestions never
\* returns questions from it.
C10_NonZeroCodeIsFailure ==
    (lastFetch.made /\ lastFetch.response_code # 0) =>
        /\ lastFetch.status # 200
        /\ ~lastFetch.returned

\* The source answered HTTP 200 with response_code 5, the browser's request
\* to the proxy went through, and the flow ended on the start screen.
C10_Witness ==
    /\ lastFetch.made /\ lastFetch.kind = "http" /\ lastFetch.ok
    /\ lastFetch.response_code = 5 /\ lastFetch.link = "ok"
    /\ flow = NoFlow /\ Screen = "start" /\ session = NULL

\* ---------------------------------------------------------------- C11
\* C11: one start action sets at most one start-quiz flow going, which issues
\* exactly one question fetch (so at most one is outstanding); a session on
\* the way or in place comes from that one fetch, and at most one countdown
\* interval is live.
C11_OneFlowPerStart ==
    /\ startLog.flows <= 1
    /\ startLog.fetches <= startLog.flows
    /\ (flow.phase = "delay") => (startLog.flows = 1 /\ startLog.fetches = 0)
    /\ (flow.phase = "fetch" \/ session # NULL) => startLog.fetches = 1
    /\ Cardinality(liveIntervals) <= 1

\* A click with a valid email has led to the quiz: one flow, one fetch, one
\* session, one interval.
C11_Witness ==
    /\ startLog.flows = 1 /\ startLog.fetches = 1
    /\ Screen = "quiz"
    /\ flow = NoFlow
    /\ Cardinality(liveIntervals) = 1

\* ---------------------------------------------------------------- C12
\* C12: a start action on an email that is empty after trimming or fails
\* validateEmail sets an error and goes no further: no flow, the state stays
\* 'start', no request is issued; and from a start screen with such an email
\* no step at all sets a flow or a request going.
C12_InvalidEmailBlocksStart ==
    [][LET bad == Trim(email) = T_Empty \/ ~validateEmail(Trim(email))
       IN  /\ (startLog'.mark # startLog.mark /\ bad) =>
                  /\ emailError' \in {"Please enter your email address",
                                      "Please enter a valid email address"}
                  /\ startLog'.flows = 0 /\ startLog'.fetches = 0
                  /\ ~isValidating'
           /\ (Screen = "start" /\ flow = NoFlow /\ bad) =>
                  /\ flow' = NoFlow
                  /\ quizState' = "start"
                  /\ lastFetch' = lastFetch
      ]_vars

\* The start action on "a@b" has set the error; nothing else has happened.
C12_Witness ==
    /\ email = E_Invalid
    /\ emailError = "Please enter a valid email address"
    /\ startLog.mark /\ startLog.flows = 0
    /\ flow = NoFlow /\ Screen = "start" /\ ~lastFetch.made

\* ---------------------------------------------------------------- C13
\* Every character of text from position a to position b is neither white
\* space nor "@", and there is at least one.
PlainRun(text, a, b) ==
    /\ a <= b
    /\ \A k \in a..b : text[k] \notin {" ", "\t", "\n", "@"}

\* C13: validateEmail(text) is true exactly when the whole text is a run of
\* one or more characters that are neither white space nor "@", an "@",
\* another such run, a ".", and another such run; "a@b.co" is accepted,
\* "a@b" and "a b@c.com" are rejected.
C13_EmailShape ==
    emailVerdict # NULL =>
        /\ emailVerdict[1] <=>
               \E i, j \in 1..Len(emailText) :
                   /\ emailText[i] = "@" /\ emailText[j] = "."
                   /\ PlainRun(emailText, 1, i - 1)
                   /\ PlainRun(emailText, i + 1, j - 1)
                   /\ PlainRun(emailText, j + 1, Len(emailText))
        /\ emailText = E_Co => emailVerdict[1]
        /\ emailText \in {E_Invalid, E_Spaced} => ~emailVerdict[1]

\* validateEmail has accepted "a@b.co".
C13_Witness == emailText = E_Co /\ emailVerdict = Some(TRUE)

\* ---------------------------------------------------------------- C14
\* C14: for a whole number of seconds, formatTime gives the five characters
\* MM:SS: the two digits of floor(seconds / 60), a colon, the two digits of
\* seconds mod 60; 125 gives "02:05" and 0 gives "00:00".
C14_FormatIsMMSS ==
    formatted # NULL =>
        LET mm == seconds \div 60
            ss == seconds % 60
        IN  /\ Len(formatted[1]) = 5
            /\ formatted[1] = <<Digits[(mm \div 10) + 1], Digits[(mm % 10) + 1], ":",
                                Digits[(ss \div 10) + 1], Digits[(ss % 10) + 1]>>
            /\ seconds = 125 => formatted[1] = <<"0", "2", ":", "0", "5">>
            /\ seconds = 0 => formatted[1] = <<"0", "0", ":", "0", "0">>

\* formatTime(125) has given "02:05".
C14_Witness == seconds = 125 /\ formatted = Some(<<"0", "2", ":", "0", "5">>)

C16_NothingAnswered ==
    summary # NULL =>
        LET questions == finalSession[1].questions
        IN  /\ (\A k \in DOMAIN questions :
                    questions[k].user_answer = UNDEF /\ ~questions[k].is_answered)
                => /\ summary[1].score = 0
                   /\ summary[1].unanswered_questions = summary[1].total_questions
            /\ questions = <<>>
                => /\ summary[1].score = 0
                   /\ summary[1].correct_answers = 0
                   /\ summary[1].incorrect_answers = 0
                   /\ summary[1].unanswered_questions = 0

\* ---------------------------------------------------------------- C17
\* The text with every occurrence of an entity of the fixed set replaced by
\* what the table puts for it and every other character kept: the text is
\* read once from left to right (no entity of the set begins another).
RECURSIVE EntitiesReplaced(_)
EntitiesReplaced(text) ==
    IF text = <<>> THEN <<>>
    ELSE LET hits == {k \in DOMAIN Entities :
                         /\ Len(Entities[k].pat) <= Len(text)
                         /\ SubSeq(text, 1, Len(Entities[k].pat)) = Entities[k].pat}
         IN  IF hits = {} THEN <<Head(text)>> \o EntitiesReplaced(Tail(text))
             ELSE LET k == CHOOSE h \in hits : TRUE
                  IN  Entities[k].rep
                          \o EntitiesReplaced(SubSeq(text, Len(Entities[k].pat) + 1, Len(text)))

\* C17: in a processed question the question text, the correct answer, every
\* answer among the options and the category are the raw texts with every
\* occurrence of an entity of the fixed set replaced by its character and
\* everything else, other entities included, unchanged; difficulty is the
\* raw one.  `T&amp;J&quot;S&quot;` becomes `T&J"S"`, `&foo;` stays.
C17_EntitiesDecoded ==
    processed # NULL =>
        \A k \in DOMAIN rawQuestions :
            LET raw == rawQuestions[k]
                out == processed[1][k]
                answers == <<raw.correct_answer>> \o raw.incorrect_answers
            IN  /\ out.question = EntitiesReplaced(raw.question)
                /\ out.correct_answer = EntitiesReplaced(raw.correct_answer)
                /\ out.category = EntitiesReplaced(raw.category)
                /\ out.difficulty = raw.difficulty
                /\ Len(out.options) = Len(answers)
                /\ \A i \in DOMAIN answers :
                       Count(out.options, EntitiesReplaced(answers[i]))
                           = Cardinality({j \in DOMAIN answers :
                                 EntitiesReplaced(answers[j]) = EntitiesReplaced(answers[i])})
                /\ raw.question = T_TomRaw => out.question = T_TomDecoded
                /\ raw.question = T_Foo => out.question = T_Foo

\* ---------------------------------------------------------------- C18
\* C18: processQuizQuestions keeps the input order and gives the i-th input
\* question the id i: the ids are 1..N, and the question text and correct
\* answer of output i are the decoded ones of input i.
C18_IdsInInputOrder ==
    processed # NULL =>
        /\ Len(processed[1]) = Len(rawQuestions)
        /\ \A i \in DOMAIN processed[1] :
              /\ processed[1][i].id = i
              /\ processed[1][i].question = decodeHtmlEntities(rawQuestions[i].question)
              /\ processed[1][i].correct_answer =
                     decodeHtmlEntities(rawQuestions[i].correct_answer)

\* Two different questions processed: ids 1 and 2, texts in the input order.
C18_Witness ==
    /\ processed # NULL
    /\ Len(rawQuestions) = 2
    /\ rawQuestions[1].question = T_TomRaw /\ rawQuestions[2].question = T_Foo
    /\ processed[1][1].id = 1 /\ processed[1][1].question = T_TomDecoded
    /\ processed[1][2].id = 2 /\ processed[1][2].question = T_Foo

\* ---------------------------------------------------------------- C19
\* The decoded answers of a raw question in the order shuffleArray gets them.
AllOptions(raw) ==
    <<decodeHtmlEntities(raw.correct_answer)>>
        \o [i \in 1..Len(raw.incorrect_answers) |->
               decodeHtmlEntities(raw.incorrect_answers[i])]

Range(seq) == {seq[i] : i \in DOMAIN seq}

RECURSIVE Factorial(_)
Factorial(n) == IF n <= 1 THEN 1 ELSE n * Factorial(n - 1)

\* C19: whatever the random indices, the shuffled options are the input
\* options rearranged (same length, every text as often as before) and the
\* input is left as it was; and for N different options each of the N!
\* arrangements comes from exactly one sequence of indices j in 0..i,
\* i = N-1 down to 1: there are N! sequences, no two of them give the same
\* arrangement, and each gives an arrangement of the options.
C19_ShuffleIsUniformPermutation ==
    /\ [](processed # NULL =>
             \A k \in DOMAIN rawQuestions :
                 LET allOptions == AllOptions(rawQuestions[k])
                     N == Len(allOptions)
                     outcomes == {shuffleArray(allOptions, rnd) : rnd \in RandomChoices(N)}
                 IN  /\ Len(processed[1][k].options) = N
                     /\ \A x \in Range(allOptions) \cup Range(processed[1][k].options) :
                            Count(processed[1][k].options, x) = Count(allOptions, x)
                     /\ Cardinality(Range(allOptions)) = N =>
                            /\ Cardinality(RandomChoices(N)) = Factorial(N)
                            /\ Cardinality(outcomes) = Factorial(N)
                            /\ \A p \in outcomes :
                                   Len(p) = N /\ Range(p) = Range(allOptions))
    /\ [][rawQuestions' = rawQuestions]_vars

\* A question with four different options, shuffled into the reverse order.
C19_Witness ==
    /\ processed # NULL
    /\ \E k \in DOMAIN rawQuestions :
          /\ AllOptions(rawQuestions[k]) = <<T_A, T_B, T_C, T_Amp>>
          /\ processed[1][k].options = <<T_Amp, T_C, T_B, T_A>>

\* C20: every question fetchQuizQuestions hands back from processQuizQuestions
\* has no user_answer and is neither answered nor visited; the session that
\* handleStartQuiz then stores holds the same questions with the first one,
\* and only the first one, marked visited, and current_question_index 0.
C20_FreshQuestionsFirstVisited ==
    [][(flow.phase = "fetch" /\ flow' = NoFlow /\ lastFetch'.returned) =>
          /\ \A k \in DOMAIN lastFetch'.questions :
                 /\ lastFetch'.questions[k].user_answer = UNDEF
                 /\ ~lastFetch'.questions[k].is_answered
                 /\ ~lastFetch'.questions[k].is_visited
          /\ mounted =>
                 /\ session' # NULL
                 /\ session'[1].current_question_index = 0
                 /\ Len(session'[1].questions) = Len(lastFetch'.questions)
                 /\ \A k \in DOMAIN session'[1].questions :
                        /\ session'[1].questions[k].is_visited = (k = 1)
                        /\ session'[1].questions[k] =
                               [lastFetch'.questions[k] EXCEPT !.is_visited = (k = 1)]]_vars

\* The quiz has just started with two questions: the first is marked visited,
\* the second is not, and nothing is answered.
C20_Witness ==
    /\ quizState = "quiz" /\ session # NULL /\ flow = NoFlow
    /\ Len(session[1].questions) = 2
    /\ lastFetch.returned /\ Len(lastFetch.questions) = 2
    /\ session[1].current_question_index = 0
    /\ session[1].questions[1].is_visited
    /\ ~session[1].questions[2].is_visited
    /\ \A k \in 1..2 : ~session[1].questions[k].is_answered
    /\ timeRemaining = TOTAL_TIME

\* ---------------------------------------------------------------- C21
\* C21: in every session the user_answer of each question is absent or is
\* one of the texts in the options of that same question.
C21_AnswerIsAnOption ==
    session # NULL =>
        \A k \in DOMAIN session[1].questions :
            \/ session[1].questions[k].user_answer = UNDEF
            \/ \E i \in DOMAIN session[1].questions[k].options :
                   session[1].questions[k].options[i] = session[1].questions[k].user_answer

\* The second question has been answered with one of its options while the
\* first one holds another answer.
C21_Witness ==
    /\ session # NULL /\ Screen = "quiz"
    /\ Len(session[1].questions) = 2
    /\ session[1].questions[1].user_answer = T_Amp
    /\ session[1].questions[2].user_answer = T_B
    /\ session[1].questions[2].is_answered

\* ---------------------------------------------------------------- C22
\* C22: while a session lasts its questions stay the same in number and a
\* question's is_visited and is_answered never go from true back to false;
\* a selection writes the selected text over the question's user_answer; and
\* when the quiz is scored the score counts every question with an answer
\* once, however often its answer was selected.
C22_QuestionsOnlyMoveForward ==
    [][/\ (session # NULL /\ session' # NULL) =>
              /\ Len(session'[1].questions) = Len(session[1].questions)
              /\ \A k \in DOMAIN session[1].questions :
                     /\ session[1].questions[k].is_visited => session'[1].questions[k].is_visited
                     /\ session[1].questions[k].is_answered => session'[1].questions[k].is_answered
                     /\ session'[1].questions[k].user_answer # session[1].questions[k].user_answer =>
                            /\ k = session[1].current_question_index + 1
                            /\ session'[1].questions[k].user_answer = selectedAnswer'
                            /\ session'[1].questions[k].is_answered
                            /\ session'[1].questions[k].is_visited
       /\ (session # NULL /\ results = NULL /\ results' # NULL) =>
              LET answered == {k \in DOMAIN session[1].questions :
                                   session[1].questions[k].is_answered}
                  correct == {k \in answered : session[1].questions[k].user_answer =
                                               session[1].questions[k].correct_answer}
              IN  /\ Len(results'[1].question_results) = Len(session[1].questions)
                  /\ results'[1].score =
                         (IF answered = {} THEN 0
                          ELSE MathRound(Cardinality(correct) * 100, Cardinality(answered)))
      ]_vars

\* The one answered question of a scored session had its answer changed from
\* the correct text to another one: the score is 0 over one answer.
C22_Witness ==
    /\ answerChanged /\ Screen = "results" /\ session # NULL
    /\ Len(session[1].questions) = 2
    /\ session[1].questions[1].is_answered /\ session[1].questions[1].user_answer = T_A
    /\ session[1].questions[1].correct_answer = T_Amp
    /\ ~session[1].questions[2].is_answered /\ session[1].questions[2].is_visited
    /\ results[1].score = 0

\* ---------------------------------------------------------------- C23
\* C23: whenever results are produced, by the Finish button or by the
\* time-up, their time_taken is the budget less the time remaining at that
\* moment; results produced by the time-up have time_taken = TOTAL_TIME.
C23_TimeTakenAtCompletion ==
    [][(results = NULL /\ results' # NULL) =>
          /\ results'[1].time_taken = TOTAL_TIME - timeRemaining
          /\ timeUpPending => results'[1].time_taken = TOTAL_TIME
      ]_vars

\* ---------------------------------------------------------------- C24
\* C24: on the quiz screen current_question_index is an index of the
\* session's questions; Previous on the first question changes nothing;
\* the Next button on a question that is not the last one moves to the
\* following question and does not finish; and on the last question it
\* finishes the quiz whenever it can be pressed, it is never a button that
\* navigates or does nothing.
C24_NavigationIsSafe ==
    Screen = "quiz" =>
        LET index == session[1].current_question_index
            last == Len(session[1].questions) - 1
        IN  /\ index \in 0..last
            /\ index = 0 => ~ENABLED (handlePreviousQuestion /\ session' # session)
            /\ index < last =>
                   /\ ~ENABLED FinishQuiz
                   /\ ~ENABLED (handleNextQuestion
                                /\ session'[1].current_question_index # index + 1)
            /\ index = last =>
                   /\ ~ENABLED handleNextQuestion
                   /\ (QuizInput /\ Truthy(selectedAnswer)) => ENABLED FinishQuiz

\* ---------------------------------------------------------------- C25
\* C25: a quiz comes onto the screen with the whole budget as remaining
\* time; while it is on the screen the remaining time is within
\* 0..TOTAL_TIME and exactly one countdown is running, every step leaves the
\* remaining time as it is or takes exactly 1 off it, and once it is 0 it
\* stays 0.
C25_CountdownByOne ==
    /\ [](Screen = "quiz" =>
             /\ timeRemaining \in 0..TOTAL_TIME
             /\ Cardinality(liveIntervals) = 1)
    /\ [][/\ (Screen # "quiz" /\ Screen' = "quiz") => timeRemaining' = TOTAL_TIME
          /\ (Screen = "quiz" /\ Screen' = "quiz") =>
                 /\ timeRemaining' \in {timeRemaining, timeRemaining - 1}
                 /\ timeRemaining = 0 => timeRemaining' = 0
         ]_vars

\* The countdown of a quiz on the screen has come down to 0, one second at a
\* time, and the time-up has not yet been handled.
C25_Witness ==
    /\ Screen = "quiz" /\ timeRemaining = 0 /\ timeUpPending
    /\ Cardinality(liveIntervals) = 1

\* ---------------------------------------------------------------- C26
\* C26: while QuizAppContent is mounted, quizState 'quiz' comes with a
\* session, 'results' with results, 'start' with no session and no live
\* countdown; so the render never falls through to the 'Something went
\* wrong' view.
C26_ScreenMatchesData ==
    mounted =>
        /\ quizState = "quiz" => session # NULL
        /\ quizState = "results" => results # NULL
        /\ quizState = "start" => (session = NULL /\ liveIntervals = {})
        /\ quizState \in {"loading", "start", "quiz", "results"}
        /\ Screen # "fallback"

\* Back on the start view after a quiz that was played and scored.
C26_Witness ==
    /\ mounted /\ quizState = "start" /\ flow = NoFlow
    /\ lastFetch.returned /\ startLog.fetches = 1
    /\ session = NULL /\ results = NULL /\ liveIntervals = {}

C28_DecodeIsSinglePass ==
    processed # NULL =>
        /\ decodeHtmlEntities(T_AmpAmp) = T_AmpEntity
        /\ \A k \in DOMAIN rawQuestions :
               /\ processed[1][k].question = EntitiesReplaced(rawQuestions[k].question)
               /\ rawQuestions[k].question = T_AmpLt => processed[1][k].question = T_LtEntity

\* ---------------------------------------------------------------- C29
\* The state of QuizAppContent other than the session and the remaining time.
C29_Rest == <<mounted, quizState, loadingState, results, timerInterval, liveIntervals>>

C30_RestartIsFresh ==
    [][/\ (Screen = "results" /\ quizState' = "start") =>
              /\ session' = NULL /\ results' = NULL
              /\ timeRemaining' = TOTAL_TIME
              /\ loadingState' = LoadingIdle
              /\ timerInterval' = 0 /\ liveIntervals' = {}
              /\ email' = T_Empty /\ emailError' = "" /\ ~isValidating'
              /\ VisibleError' = ""
              /\ flow' = NoFlow /\ ~timeUpPending' /\ selectedAnswer' = UNDEF
       /\ (session = NULL /\ session' # NULL) =>
              /\ session'[1].current_question_index = 0
              /\ session'[1].time_remaining = TOTAL_TIME
              /\ ~session'[1].is_completed
              /\ \A k \in DOMAIN session'[1].questions :
                     /\ session'[1].questions[k].user_answer = UNDEF
                     /\ ~session'[1].questions[k].is_answered
                     /\ session'[1].questions[k].is_visited <=> (k = 1)
              /\ results' = NULL
              /\ selectedAnswer' = UNDEF
              /\ timeRemaining' = TOTAL_TIME
              /\ Cardinality(liveIntervals') = 1
      ]_vars

\* A second quiz is on the screen after a return from the results of a
\* first one: nothing is answered, the first question alone is visited.
C30_Witness ==
    /\ restarted /\ Screen = "quiz" /\ results = NULL
    /\ Len(session[1].questions) = 2
    /\ session[1].current_question_index = 0
    /\ \A k \in 1..2 : session[1].questions[k].user_answer = UNDEF
    /\ session[1].questions[1].is_visited /\ ~session[1].questions[2].is_visited
    /\ timeRemaining = TOTAL_TIME /\ selectedAnswer = UNDEF

====
